---------------------------- MODULE Spec2Model ----------------------------
(***************************************************************************)
(* A model of andhikayusup/biaffineparser:                                 *)
(*   - src/utils/conllu.py : parse_conll, read_conll, dump_conll,          *)
(*     write_conll (the CoNLL-U record model, reader and writer);          *)
(*   - pytorch/parser.py   : the evaluation loop of test() (the fold of    *)
(*     the per-sentence results into UAS, LAS, count and the report).      *)
(*                                                                         *)
(* Text is a sequence of one-character strings, so that joining on tabs    *)
(* and splitting on tabs are two different computations.  A Python value   *)
(* is a record with one field naming its type: [int |-> n], [str |-> s],   *)
(* [none |-> TRUE], [range |-> <<a, b>>] (the id of a multi-word token).   *)
(* A token is a function from the keys it holds to values.                 *)
(***************************************************************************)
EXTENDS Integers, Sequences, FiniteSets

VARIABLES
    pc,         \* position of the conllu pipeline: read, dump, written, done
    blocks,     \* the token tables parse_incr delivers, one per block
    rpos,       \* blocks consumed by read_conll so far
    last,       \* what the last parse_conll call yielded (<<>> or <<tokens>>)
    yielded,    \* sentences read_conll has yielded so far (the docs)
    wpos,       \* sentences dump_conll has written so far
    out,        \* the characters written to the writer
    reread,     \* read_conll over the written file
    tpc,        \* position of test(): batch, zip, done, error
    nb,         \* batches taken from dataset.batch
    nGold,      \* len(true_arcs) = len(true_labels) of the current batch
    nPred,      \* len of the shorter of arcs_batch, labels_batch
    i,          \* index of the inner loop of test()
    mask,       \* ignore mask of the sentence scored last
    res,        \* (_uas, _las, _count) of the sentence scored last
    UAS, LAS, count,  \* the accumulators of test()
    reported,   \* the scores logged by test(): <<>> or <<[UAS, LAS]>>
    dropped,    \* history: gold sentences the zip ended before reaching
    misaligned  \* history: some batch had nPred # nGold

conllVars == <<pc, blocks, rpos, last, yielded, wpos, out, reread>>
testVars  == <<tpc, nb, nGold, nPred, i, mask, res, UAS, LAS, count,
               reported, dropped, misaligned>>
vars      == <<conllVars, testVars>>

---------------------------------------------------------------------------
(* Bounds of the model. *)
MaxBlocks == 2
MaxTokens == 2

---------------------------------------------------------------------------
(* Python values. *)
IntV(n) == [int |-> n]
StrV(s) == [str |-> s]
NoneV   == [none |-> TRUE]
RangeV(a, b) == [range |-> <<a, b>>]

IsInt(v) == "int" \in DOMAIN v
IsStr(v) == "str" \in DOMAIN v

TAB == "\t"
NL  == "\n"
Underscore == <<"_">>

attrs == <<"id", "form", "lemma", "upos", "xpos", "feats", "head", "deprel",
           "deps", "misc">>

\* dict.get(k): the value, None when the key is missing
Get(token, k) == IF k \in DOMAIN token THEN token[k] ELSE NoneV

_create_root ==
    [id |-> IntV(0),
     form |-> StrV(<<"<", "R", "O", "O", "T", ">">>),
     lemma |-> StrV(<<"<", "R", "O", "O", "T", ">">>),
     upos |-> StrV(<<"R", "O", "O", "T">>),
     xpos |-> StrV(<<"R", "O", "O", "T">>),
     feats |-> StrV(Underscore),
     head |-> IntV(0),
     deprel |-> StrV(<<"r", "o", "o", "t">>),
     deps |-> StrV(Underscore),
     misc |-> StrV(Underscore)]

---------------------------------------------------------------------------
(* parse_conll: the loop over the token table, then the conditional yield. *)
RECURSIVE AppendIntTokens(_, _)
AppendIntTokens(tokens, tokenlist) ==
    IF tokenlist = <<>> THEN tokens
    ELSE LET token == Head(tokenlist) IN
         AppendIntTokens(IF IsInt(token["id"]) THEN Append(tokens, token)
                                                ELSE tokens,
                         Tail(tokenlist))

\* mutant: the type test on the id is left out
parse_conll_keepAll(tokenlist) ==
    LET tokens == <<_create_root>> \o tokenlist IN
    IF Len(tokens) > 1 THEN <<tokens>> ELSE <<>>

\* mutant: the root is appended after the tokens
parse_conll_rootLast(tokenlist) ==
    LET tokens == Tail(AppendIntTokens(<<_create_root>>, tokenlist))
                  \o <<_create_root>> IN
    IF Len(tokens) > 1 THEN <<tokens>> ELSE <<>>

\* mutant: the length test before the yield is left out
parse_conll_alwaysYield(tokenlist) ==
    <<AppendIntTokens(<<_create_root>>, tokenlist)>>

parse_conll(tokenlist) ==
    LET tokens == AppendIntTokens(<<_create_root>>, tokenlist) IN
    IF Len(tokens) > 1 THEN <<tokens>> ELSE <<>>

---------------------------------------------------------------------------
(* str() of a value, and the column rendering of dump_conll. *)
Digits == <<"0", "1", "2", "3", "4", "5", "6", "7", "8", "9">>

RECURSIVE NatToStr(_)
NatToStr(n) ==
    IF n < 10 THEN <<Digits[n + 1]>>
    ELSE NatToStr(n \div 10) \o <<Digits[(n % 10) + 1]>>

IntToStr(n) == IF n < 0 THEN <<"-">> \o NatToStr(-n) ELSE NatToStr(n)

\* str(v) for the values a token holds; str of a tuple id is its repr
Str(v) ==
    IF IsInt(v) THEN IntToStr(v.int)
    ELSE IF IsStr(v) THEN v.str
    ELSE IF v = NoneV THEN <<"N", "o", "n", "e">>
    ELSE <<"(">> \o IntToStr(v.range[1]) \o <<",", " ", "'", "-", "'", ",", " ">>
         \o IntToStr(v.range[2]) \o <<")">>

\* mutant: str(v) whatever v is
RenderCol_strAlways(v) == Str(v)

\* lambda v: str(v) if v is not None else "_"
RenderCol(v) == IF v # NoneV THEN Str(v) ELSE Underscore

RECURSIVE Join(_, _)
Join(cols, sep) ==
    IF cols = <<>> THEN <<>>
    ELSE IF Len(cols) = 1 THEN cols[1]
    ELSE cols[1] \o <<sep>> \o Join(Tail(cols), sep)

\* "\t".join(cols) + "\n" for one token
TokenLine(token) ==
    Join([k \in 1..Len(attrs) |-> RenderCol(Get(token, attrs[k]))], TAB)
    \o <<NL>>

\* mutant: the root is written like any token
RECURSIVE TokenLines_emitRoot(_)
TokenLines_emitRoot(tokens) ==
    IF tokens = <<>> THEN <<>>
    ELSE TokenLine(Head(tokens)) \o TokenLines_emitRoot(Tail(tokens))

\* the inner loop of dump_conll: the lines of the tokens whose id is not 0
RECURSIVE TokenLines(_)
TokenLines(tokens) ==
    IF tokens = <<>> THEN <<>>
    ELSE IF Head(tokens)["id"] = IntV(0) THEN TokenLines(Tail(tokens))
    ELSE TokenLine(Head(tokens)) \o TokenLines(Tail(tokens))

\* one iteration of the outer loop of dump_conll: the block of a sentence
SentenceBlock(tokens) == TokenLines(tokens) \o <<NL>>

---------------------------------------------------------------------------
(* The text side of parse_incr (the conllu package): the file format of    *)
(* the CoNLL-U text, blocks ended by a blank line, one line per token,     *)
(* ten tab-separated fields; id and head are integers when all digits.     *)
\* the pieces of text from position start on, the scan standing at k
RECURSIVE SplitFrom(_, _, _, _)
SplitFrom(text, sep, start, k) ==
    IF k > Len(text) THEN <<SubSeq(text, start, Len(text))>>
    ELSE IF text[k] = sep
         THEN <<SubSeq(text, start, k - 1)>> \o SplitFrom(text, sep, k + 1, k + 1)
         ELSE SplitFrom(text, sep, start, k + 1)

\* the pieces between the separators, as many as separators plus one
SplitOn(text, sep) == SplitFrom(text, sep, 1, 1)

IsDigit(c) == \E d \in 1..Len(Digits) : Digits[d] = c
AllDigits(s) == s # <<>> /\ \A k \in 1..Len(s) : IsDigit(s[k])
DigitVal(c) == (CHOOSE d \in 1..Len(Digits) : Digits[d] = c) - 1

RECURSIVE StrToNat(_, _)
StrToNat(s, acc) ==
    IF s = <<>> THEN acc ELSE StrToNat(Tail(s), 10 * acc + DigitVal(Head(s)))

ParseField(k, col) ==
    IF k \in {"id", "head"} /\ AllDigits(col) THEN IntV(StrToNat(col, 0))
    ELSE StrV(col)

ParseLine(line) ==
    LET cols == SplitOn(line, TAB)
        n == IF Len(cols) < Len(attrs) THEN Len(cols) ELSE Len(attrs)
    IN [k \in {attrs[j] : j \in 1..n} |->
          ParseField(k, cols[CHOOSE j \in 1..n : attrs[j] = k])]

RECURSIVE GroupBlocks(_, _)
GroupBlocks(lines, cur) ==
    IF lines = <<>> THEN (IF cur = <<>> THEN <<>> ELSE <<cur>>)
    ELSE IF Head(lines) = <<>>
         THEN (IF cur = <<>> THEN <<>> ELSE <<cur>>)
              \o GroupBlocks(Tail(lines), <<>>)
         ELSE GroupBlocks(Tail(lines), Append(cur, ParseLine(Head(lines))))

parse_incr(text) == GroupBlocks(SplitOn(text, NL), <<>>)

\* read_conll over a whole file: yield from parse_conll of every block
RECURSIVE read_conll(_)
read_conll(tokenlists) ==
    IF tokenlists = <<>> THEN <<>>
    ELSE parse_conll(Head(tokenlists)) \o read_conll(Tail(tokenlists))

---------------------------------------------------------------------------
(* The token tables the reader is given. *)
tokFull ==
    [id |-> IntV(1), form |-> StrV(<<"a">>), lemma |-> StrV(<<"a">>),
     upos |-> StrV(<<"N">>), xpos |-> StrV(<<"N">>),
     feats |-> StrV(Underscore), head |-> IntV(0),
     deprel |-> StrV(<<"r">>), deps |-> StrV(Underscore),
     misc |-> StrV(Underscore)]

\* a token with an empty lemma, a None xpos and five missing keys
tokSparse ==
    [id |-> IntV(2), form |-> StrV(<<"b", "c">>), lemma |-> StrV(<<>>),
     xpos |-> NoneV, head |-> IntV(10)]

\* a multi-word token: its id is not an integer
tokRange ==
    [id |-> RangeV(1, 2), form |-> StrV(<<"a", "b", "c">>),
     lemma |-> StrV(Underscore), head |-> NoneV]

RawTokens == {tokFull, tokSparse, tokRange}

SeqsUpTo(S, n) == UNION {[1..k -> S] : k \in 0..n}

TokenLists == SeqsUpTo(RawTokens, MaxTokens)
Files == SeqsUpTo(TokenLists, MaxBlocks)

---------------------------------------------------------------------------
(* The conllu pipeline: read_conll over the blocks, dump_conll of the      *)
(* sentences read, read_conll over what was written.                       *)
TestIdle ==
    /\ tpc = "idle" /\ nb = 0 /\ nGold = 0 /\ nPred = 0 /\ i = 0
    /\ mask = <<>> /\ res = <<0, 0, 0>>
    /\ UAS = 0 /\ LAS = 0 /\ count = 0
    /\ reported = <<>> /\ dropped = 0
    /\ misaligned = FALSE

Init ==
    /\ pc = "read"
    /\ blocks \in Files
    /\ rpos = 0
    /\ last = <<>>
    /\ yielded = <<>>
    /\ wpos = 0
    /\ out = <<>>
    /\ reread = <<>>
    /\ TestIdle

\* one step of the generator read_conll: the next block goes through
\* parse_conll, and what it yields reaches the consumer
ReadNext ==
    /\ pc = "read"
    /\ rpos < Len(blocks)
    /\ rpos' = rpos + 1
    /\ last' = parse_conll(blocks[rpos + 1])
    /\ yielded' = yielded \o last'
    /\ UNCHANGED <<pc, blocks, wpos, out, reread, testVars>>

\* parse_incr is exhausted: the generator ends, the docs go to write_conll
ReadEnd ==
    /\ pc = "read"
    /\ rpos = Len(blocks)
    /\ pc' = "dump"
    /\ UNCHANGED <<blocks, rpos, last, yielded, wpos, out, reread, testVars>>

\* one iteration of the outer loop of dump_conll
DumpNext ==
    /\ pc = "dump"
    /\ wpos < Len(yielded)
    /\ wpos' = wpos + 1
    /\ out' = out \o SentenceBlock(yielded[wpos + 1])
    /\ UNCHANGED <<pc, blocks, rpos, last, yielded, reread, testVars>>

\* writer.flush(), and write_conll closes the file
DumpFlush ==
    /\ pc = "dump"
    /\ wpos = Len(yielded)
    /\ pc' = "written"
    /\ UNCHANGED <<blocks, rpos, last, yielded, wpos, out, reread, testVars>>

\* read_conll over the written file
Reread ==
    /\ pc = "written"
    /\ reread' = read_conll(parse_incr(out))
    /\ pc' = "done"
    /\ UNCHANGED <<blocks, rpos, last, yielded, wpos, out, testVars>>

Next == ReadNext \/ ReadEnd \/ DumpNext \/ DumpFlush \/ Reread

Spec == Init /\ [][Next]_vars

---------------------------------------------------------------------------
(* Vocabulary of the claims about the reader and the writer. *)
HasIntId(t) == IsInt(t["id"])
IntTokens(tokenlist) == SelectSeq(tokenlist, HasIntId)
HasIntToken(tokenlist) == \E k \in 1..Len(tokenlist) : HasIntId(tokenlist[k])
HasOtherToken(tokenlist) == \E k \in 1..Len(tokenlist) : ~HasIntId(tokenlist[k])

IsRoot(t) ==
    /\ DOMAIN t = {attrs[k] : k \in 1..Len(attrs)}
    /\ t["id"] = IntV(0)
    /\ t["form"] = StrV(<<"<", "R", "O", "O", "T", ">">>)
    /\ t["head"] = IntV(0)
    /\ t["deprel"] = StrV(<<"r", "o", "o", "t">>)

\* C1: when the table holds a token with an integer id, parse_conll yields
\* one sentence: the fixed root, then exactly the integer-id tokens of the
\* table in their order; nothing else is kept, added or moved.
C1_RootThenIntegerTokens ==
    (rpos > 0 /\ HasIntToken(blocks[rpos])) =>
        /\ Len(last) = 1
        /\ IsRoot(last[1][1])
        /\ Tail(last[1]) = IntTokens(blocks[rpos])
        /\ \A j \in 2..Len(last[1]) : HasIntId(last[1][j])

C1_Witness ==
    /\ rpos > 0
    /\ HasIntToken(blocks[rpos])
    /\ HasOtherToken(blocks[rpos])
    /\ Len(last) = 1

\* the ids after the first element are 1, 2, ..., with no gap
SequentialIds(s) ==
    /\ s[1]["id"] = IntV(0)
    /\ \A j \in 2..Len(s) : s[j]["id"] = IntV(j - 1)

\* the integer-id tokens of the table are numbered 1, 2, ... in order
WellNumbered(tokenlist) ==
    LET its == IntTokens(tokenlist) IN
    \A j \in 1..Len(its) : its[j]["id"] = IntV(j)

\* C2 as stated: every yielded sentence starts at id 0 and goes on with the
\* ids 1, 2, ... without a gap, for any input table.
C2_Original == \A n \in 1..Len(yielded) : SequentialIds(yielded[n])

\* C2 amended: every yielded sentence starts with the root (id 0); the rest
\* carries the ids of the table's integer-id tokens unchanged and in order,
\* so they are 1, 2, ... without a gap exactly when the table numbers them so.
C2_RootFirstIdsAsGiven ==
    (rpos > 0 /\ Len(last) = 1) =>
        LET s == last[1]
            its == IntTokens(blocks[rpos]) IN
        /\ s[1]["id"] = IntV(0)
        /\ Len(s) = Len(its) + 1
        /\ \A j \in 1..Len(its) : s[j + 1]["id"] = its[j]["id"]
        /\ (WellNumbered(blocks[rpos]) <=> SequentialIds(s))

C2_Witness ==
    /\ rpos > 0
    /\ Len(last) = 1
    /\ Len(last[1]) = 3
    /\ WellNumbered(blocks[rpos])
    /\ SequentialIds(last[1])

\* the blocks consumed so far that hold a token with an integer id
Yielding == {k \in 1..rpos : HasIntToken(blocks[k])}
NthYielding(n) ==
    CHOOSE k \in Yielding : Cardinality({j \in Yielding : j <= k}) = n

\* C3: read_conll yields in block order, at most one sentence per block:
\* one for each block with an integer-id token, none for a block that
\* reduces to the root; no yielded sentence has length 1.
C3_OneSentencePerYieldingBlock ==
    /\ Len(last) <= 1
    /\ Len(yielded) = Cardinality(Yielding)
    /\ \A n \in 1..Len(yielded) :
          /\ Len(yielded[n]) > 1
          /\ Tail(yielded[n]) = IntTokens(blocks[NthYielding(n)])

C3_Witness ==
    /\ pc = "dump"
    /\ Len(blocks) = 2
    /\ blocks[1] # <<>>
    /\ ~HasIntToken(blocks[1])
    /\ Len(yielded) = 1
    /\ last = <<yielded[1]>>

---------------------------------------------------------------------------
(* The written text, read as lines and columns. *)
AllButLast(q) == SubSeq(q, 1, Len(q) - 1)

\* the lines of the output, each without its line end
OutLines == IF out = <<>> THEN <<>> ELSE AllButLast(SplitOn(out, NL))
Columns(line) == SplitOn(line, TAB)

\* lines the sentences before the n-th take: one per token, the root's
\* place taken by the blank line
RECURSIVE LinesBefore(_)
LinesBefore(n) == IF n <= 1 THEN 0 ELSE LinesBefore(n - 1) + Len(yielded[n - 1])

\* C4: dump_conll writes the sentences in input order, each as one block:
\* one line of exactly 10 tab-separated columns per real token, in token
\* order and in the column order of attrs, never a line for the root, and
\* one blank line after each block.
C4_OneBlockPerSentence ==
    pc = "written" =>
    LET lines == OutLines IN
    /\ wpos = Len(yielded)
    /\ out = <<>> \/ out[Len(out)] = NL
    /\ Len(lines) = LinesBefore(wpos + 1)
    /\ Cardinality({l \in 1..Len(lines) : lines[l] = <<>>}) = wpos
    /\ \A n \in 1..wpos :
          LET s == yielded[n]
              base == LinesBefore(n) IN
          /\ lines[base + Len(s)] = <<>>
          /\ \A j \in 2..Len(s) :
                LET cols == Columns(lines[base + j - 1]) IN
                /\ Len(cols) = Len(attrs)
                /\ cols[1] = IntToStr(s[j]["id"].int)
                /\ cols[1] # <<"0">>
                /\ \A a \in 1..Len(attrs) :
                      Get(s[j], attrs[a]) # NoneV =>
                          cols[a] = Str(s[j][attrs[a]])

C4_Witness ==
    /\ pc = "written"
    /\ wpos = 2
    /\ Len(yielded[1]) = 3
    /\ Len(OutLines) = 5

\* C5 as stated: a field that is missing, None or the empty string is
\* written as "_", so no written column is the empty string.
C5_NoEmptyColumn ==
    \A l \in 1..Len(OutLines) :
        OutLines[l] # <<>> =>
            \A c \in 1..Len(Columns(OutLines[l])) :
                Columns(OutLines[l])[c] # <<>>

\* what a field reads back as: "_" when it was None or missing on write
ReadsBackAs(token, k) ==
    IF Get(token, k) = NoneV THEN StrV(Underscore) ELSE token[k]

\* C6: writing the sentences and reading the written file again gives as
\* many sentences, in the same order, each with the same real tokens in
\* the same order and the same field values, a None or missing field
\* reading back as the string "_".
C6_RoundTrip ==
    pc = "done" =>
        /\ Len(reread) = Len(yielded)
        /\ \A n \in 1..Len(reread) :
              /\ Len(reread[n]) = Len(yielded[n])
              /\ IsRoot(reread[n][1])
              /\ \A j \in 2..Len(reread[n]) :
                    /\ DOMAIN reread[n][j] = {attrs[a] : a \in 1..Len(attrs)}
                    /\ \A a \in 1..Len(attrs) :
                          reread[n][j][attrs[a]]
                              = ReadsBackAs(yielded[n][j], attrs[a])

C6_Witness ==
    /\ pc = "done"
    /\ Len(reread) = 2
    /\ \E n \in 1..Len(yielded) : \E j \in 2..Len(yielded[n]) :
          /\ Get(yielded[n][j], "xpos") = NoneV
          /\ "upos" \notin DOMAIN yielded[n][j]
          /\ reread[n][j]["xpos"] = StrV(Underscore)
          /\ reread[n][j]["head"] = IntV(10)

---------------------------------------------------------------------------
(* test() of pytorch/parser.py: the evaluation loop and the report. *)
MaxBatches == 2
MaxBatchSize == 2
MaxSentLen == 1

\* predicted heads and labels; the gold ones are held at one value, the
\* counts depending only on whether a prediction equals the gold
Arcs == {0, 1}
Labels == {0, 1}
GoldArcs == {1}
GoldLabels == {1}

Min(a, b) == IF a < b THEN a ELSE b

\* Evaluator.evaluate: the three counts over the positions the mask keeps
Evaluate(p_arcs, p_labels, t_arcs, t_labels, m) ==
    LET kept == {k \in 1..Len(m) : ~m[k]}
        arcOk == {k \in kept : p_arcs[k] = t_arcs[k]}
        bothOk == {k \in arcOk : p_labels[k] = t_labels[k]}
    IN <<Cardinality(arcOk), Cardinality(bothOk), Cardinality(kept)>>

\* mutant: _uas and _las change places
Accumulate_swapped(acc, r) == <<acc[1] + r[2], acc[2] + r[1], acc[3] + r[3]>>

\* UAS, LAS, count = UAS + _uas, LAS + _las, count + _count
Accumulate(acc, r) == <<acc[1] + r[1], acc[2] + r[2], acc[3] + r[3]>>

\* x / count * 100, kept exact as a fraction
Percent(x, total) == [num |-> x * 100, den |-> total]

\* mutant: a zero count is logged as 0%
LogScores_silentZero(u, l, c) ==
    [tpc |-> "done",
     reported |-> <<[UAS |-> Percent(IF c = 0 THEN 0 ELSE u, IF c = 0 THEN 1 ELSE c),
                     LAS |-> Percent(IF c = 0 THEN 0 ELSE l, IF c = 0 THEN 1 ELSE c)]>>]

\* the Log.i call that ends test(): the division raises ZeroDivisionError
\* on a zero count, before anything is logged
LogScores(u, l, c) ==
    IF c = 0 THEN [tpc |-> "error", reported |-> <<>>]
    ELSE [tpc |-> "done",
          reported |-> <<[UAS |-> Percent(u, c), LAS |-> Percent(l, c)]>>]

ConllIdle ==
    /\ pc = "idle" /\ blocks = <<>> /\ rpos = 0 /\ last = <<>>
    /\ yielded = <<>> /\ wpos = 0 /\ out = <<>> /\ reread = <<>>

InitTest ==
    /\ ConllIdle
    /\ tpc = "batch"
    /\ nb = 0 /\ nGold = 0 /\ nPred = 0 /\ i = 0
    /\ mask = <<>>
    /\ res = <<0, 0, 0>>
    /\ UAS = 0 /\ LAS = 0 /\ count = 0
    /\ reported = <<>>
    /\ dropped = 0
    /\ misaligned = FALSE

\* dataset.batch gives the next batch and parser.parse its predictions;
\* the zip of the inner loop starts
NextBatch ==
    /\ tpc = "batch"
    /\ nb < MaxBatches
    /\ \E g \in 1..MaxBatchSize, p \in 0..MaxBatchSize :
          /\ nGold' = g
          /\ nPred' = p
          /\ misaligned' = (misaligned \/ p # g)
    /\ nb' = nb + 1
    /\ i' = 0
    /\ tpc' = "zip"
    /\ UNCHANGED <<conllVars, mask, res, UAS, LAS, count, reported, dropped>>

\* one iteration of the inner loop: the mask, the sentence's result, the fold
SentenceStep ==
    /\ tpc = "zip"
    /\ i < Min(nGold, nPred)
    /\ \E n \in 0..MaxSentLen :
       \E p_arcs \in [1..n -> Arcs], t_arcs \in [1..n -> GoldArcs],
          p_labels \in [1..n -> Labels], t_labels \in [1..n -> GoldLabels],
          m \in [1..n -> BOOLEAN] :
          /\ mask' = m
          /\ res' = Evaluate(p_arcs, p_labels, t_arcs, t_labels, m)
    /\ UAS' = Accumulate(<<UAS, LAS, count>>, res')[1]
    /\ LAS' = Accumulate(<<UAS, LAS, count>>, res')[2]
    /\ count' = Accumulate(<<UAS, LAS, count>>, res')[3]
    /\ i' = i + 1
    /\ UNCHANGED <<conllVars, tpc, nb, nGold, nPred, reported, dropped,
                   misaligned>>

\* the zip is exhausted: the shorter of its sequences has ended
EndBatch ==
    /\ tpc = "zip"
    /\ i = Min(nGold, nPred)
    /\ tpc' = "batch"
    /\ dropped' = dropped + (nGold - i)
    /\ UNCHANGED <<conllVars, nb, nGold, nPred, i, mask, res, UAS, LAS,
                   count, reported, misaligned>>

\* the dataset is exhausted: the scores are logged
Report ==
    /\ tpc = "batch"
    /\ tpc' = LogScores(UAS, LAS, count).tpc
    /\ reported' = LogScores(UAS, LAS, count).reported
    /\ UNCHANGED <<conllVars, nb, nGold, nPred, i, mask, res, UAS, LAS,
                   count, dropped, misaligned>>

NextTest == NextBatch \/ SentenceStep \/ EndBatch \/ Report

SpecTest == InitTest /\ [][NextTest]_vars

---------------------------------------------------------------------------
(* Claims about test(). *)
Ended == tpc \in {"done", "error"}

\* C7 as stated: when a batch's predictions and gold sentences differ in
\* number, test() ends in an error and logs no score.
C7_MisalignmentIsAnError ==
    (Ended /\ misaligned) => (tpc = "error" /\ reported = <<>>)

\* C8: a zero total count ends test() in an error with nothing logged; a
\* score is logged only for a positive count, and a logged 0% means a
\* positive count with no correct arc.
C8_ZeroCountIsAnError ==
    /\ (Ended /\ count = 0) => (tpc = "error" /\ reported = <<>>)
    /\ tpc = "error" => (count = 0 /\ reported = <<>>)
    /\ tpc = "done" => Len(reported) = 1
    /\ reported # <<>> =>
          /\ tpc = "done"
          /\ count > 0
          /\ reported[1].UAS.den = count
          /\ reported[1].LAS.den = count
          /\ (reported[1].UAS.num = 0 <=> UAS = 0)

\* every token of every sentence masked out: sentences were scored, none counted
C8_Witness ==
    /\ tpc = "error"
    /\ nb = MaxBatches
    /\ i > 0
    /\ mask = <<TRUE>>

\* C9 as stated: after the loop every sentence of every batch has been
\* folded into the totals, each exactly once; none is left out.
C9_EverySentenceFolded == Ended => dropped = 0

AllMasked(m) == \A k \in 1..Len(m) : m[k]

\* C10: labeled_correct <= unlabeled_correct <= scored_count for every
\* sentence, (0, 0, 0) under an all-true mask; so 0 <= LAS <= UAS <= count
\* after every fold, and the logged percentages lie in [0, 100], LAS <= UAS.
C10_LabelImpliesArc ==
    /\ 0 <= res[2] /\ res[2] <= res[1] /\ res[1] <= res[3]
    /\ res[3] <= Len(mask)
    /\ AllMasked(mask) => res = <<0, 0, 0>>
    /\ 0 <= LAS /\ LAS <= UAS /\ UAS <= count
    /\ reported # <<>> =>
          LET u == reported[1].UAS
              l == reported[1].LAS IN
          /\ u.den > 0 /\ l.den = u.den
          /\ 0 <= l.num /\ l.num <= u.num /\ u.num <= 100 * u.den

\* an arc scored right with its label wrong, and the scores logged
C10_Witness ==
    /\ tpc = "done"
    /\ 0 < LAS /\ LAS < UAS /\ UAS < count
    /\ res[2] < res[1]

===========================================================================
